---------------------------- MODULE Spec2Model ----------------------------
(***************************************************************************)
(* TEZ: a read-only ZIP container appended to an executable.               *)
(*                                                                         *)
(* The model follows src/tez_archive.cc (archive::init, purge, read_eocd,  *)
(* read_central_directory, read_for_file, file::read_header),              *)
(* src/tez_file.cc (stored_data_streambuf, deflated_streambuf, file::open) *)
(* and the header src/unnamed/part_001 (tez.hh).                           *)
(*                                                                         *)
(* The executable is a sequence of bytes; everything the archive knows is  *)
(* parsed out of those bytes with get_uint16/get_uint32 at the offsets the *)
(* code uses.  Buffers of 4096 bytes and the 65535-byte comment limit are  *)
(* scaled down (BufSize, MaxCommentLen).  TLC's integers are 32 bits wide   *)
(* and signed: every 32-bit field of the executables used here is below    *)
(* 2^31, and no sum of the model reaches 2^31, so the unsigned 32-bit      *)
(* arithmetic of the code is exact here without reduction.                 *)
(***************************************************************************)
EXTENDS Integers, Sequences, FiniteSets, TLC

(***************************************************************************)
(* Bounds of the model                                                     *)
(***************************************************************************)
\* sizeof(buffer), sizeof(in_buffer), sizeof(out_buffer): 4096 in the code
BufSize == 2
\* max_comment_len in read_eocd: 65535 in the code; here the length of one
\* EOCD record, so that a comment can hold a signature the scanner looks at
MaxCommentLen == 22
\* the number of threads that drive a stream each
NThreads == 2
\* the largest byte count one istream::read call asks for
MaxRead == 2

(***************************************************************************)
(* Program constants                                                       *)
(***************************************************************************)
END_OF_CENTRAL_DIRECTORY_LEN == 22
CENTRAL_DIRECTORY_RECORD_LEN == 46
LOCAL_FILE_HEADER_LEN == 30
METHOD_STORE == 0
METHOD_DEFLATE == 8
SIG_EOCD == 101010256
SIG_CD == 33639248
SIG_LOCAL == 67324752
VERSION_MAX == 20
GPBF_ENCRYPTED == 1
GPBF_DATA_DESCRIPTOR == 8
GPBF_UNSUPPORTED == 63472
TwoTo8 == 256
TwoTo16 == 65536

Byte == 0 .. 255

(***************************************************************************)
(* Little helpers on sequences                                             *)
(***************************************************************************)
\* F applied to the value v: names a value that is used more than once
Let(v, F(_)) == F(v)

\* the same for a value F(v), with v computed once wherever it is evaluated
Eval(v, F(_)) == CHOOSE r \in {F(x) : x \in {v}} : TRUE

Min(a, b) == IF a < b THEN a ELSE b

Max(a, b) == IF a < b THEN b ELSE a

\* bytes [from, from+len) of s, 0-based, cut at the end of s
Slice(s, from, len) ==
  IF from >= Len(s) \/ len <= 0 THEN << >>
  ELSE SubSeq(s, from + 1, Min(Len(s), from + len))

IsPrefix(p, s) == Len(p) <= Len(s) /\ SubSeq(s, 1, Len(p)) = p

\* s without its first n elements
Drop(s, n) == IF n >= Len(s) THEN << >> ELSE SubSeq(s, n + 1, Len(s))

RECURSIVE Concat(_)
Concat(ss) == IF ss = << >> THEN << >> ELSE Head(ss) \o Concat(Tail(ss))

\* bit b (a power of two) of the unsigned value v is set
BitSet(v, b) == (v \div b) % 2 = 1

Pow2 == {1, 2, 4, 8, 16, 32, 64, 128, 256, 512, 1024, 2048, 4096, 8192, 16384, 32768}

\* (v & mask) # 0 on 16-bit values
BitAnd(v, mask) == \E b \in Pow2 : BitSet(v, b) /\ BitSet(mask, b)

(***************************************************************************)
(* get_uint32 / get_uint16: little-endian reads at a 0-based offset p of   *)
(* a byte sequence.                                                        *)
(***************************************************************************)
get_uint16(b, p) == b[p + 1] + TwoTo8 * b[p + 2]

get_uint32(b, p) ==
  b[p + 1] + TwoTo8 * b[p + 2] + TwoTo16 * b[p + 3] + TwoTo16 * TwoTo8 * b[p + 4]

(***************************************************************************)
(* crc32(crc, buf, len) of zlib, as CRC32::update uses it: a running       *)
(* checksum folded over the bytes, 0 for no bytes (22 bits wide here).     *)
(***************************************************************************)
RECURSIVE crc32(_, _)
crc32(crc, buf) ==
  IF buf = << >> THEN crc
  ELSE crc32((crc * 257 + Head(buf) + 1) % (TwoTo16 * 64), Tail(buf))

(***************************************************************************)
(* The container as the producing tool wrote it.                           *)
(*                                                                         *)
(* The compressed form used here is a small stand-in for raw deflate, one  *)
(* symbol per byte: Z.nop consumes input and produces nothing (a block     *)
(* header), Z.fin ends the stream, Z.rep repeats the last output byte      *)
(* twice (a match), Z.bad is invalid data, any other byte is a literal.    *)
(***************************************************************************)
Z == [nop |-> 0, fin |-> 1, rep |-> 2, bad |-> 255]

put_uint16(v) == << v % TwoTo8, (v \div TwoTo8) % TwoTo8 >>

put_uint32(v) ==
  << v % TwoTo8, (v \div TwoTo8) % TwoTo8,
     (v \div TwoTo16) % TwoTo8, (v \div (TwoTo16 * TwoTo8)) % TwoTo8 >>

\* an entry as zip writes it: plain is the file's content, data its bytes in
\* the container; lgap is what the extra-field length of the local header
\* says beyond the extra bytes that are there (0 in a header zip wrote)
Stored(name, plain, comment) ==
  [name |-> name, lname |-> name, extra |-> << >>, lextra |-> << >>,
   lgap |-> 0, comment |-> comment, method |-> METHOD_STORE, flags |-> 0, version |-> 20,
   disk |-> 0, crc |-> crc32(0, plain), csize |-> Len(plain),
   usize |-> Len(plain), data |-> plain, plain |-> plain,
   sig |-> SIG_CD, lsig |-> SIG_LOCAL]

Deflated(name, plain, data, comment) ==
  [Stored(name, plain, comment) EXCEPT
     !.method = METHOD_DEFLATE, !.csize = Len(data), !.data = data]

Container(prefix, entries, comment) ==
  [prefix |-> prefix, entries |-> entries, comment |-> comment,
   clen |-> Len(comment), disk_no |-> 0, cd_disk |-> 0,
   n_disk |-> Len(entries), n_total |-> Len(entries), cd_delta |-> 0,
   eocd_sig |-> SIG_EOCD, cut |-> 0]

LocalBlock(e) ==
  put_uint32(e.lsig) \o put_uint16(e.version) \o put_uint16(e.flags)
    \o put_uint16(e.method) \o << 0, 0, 0, 0 >> \o put_uint32(e.crc)
    \o put_uint32(e.csize) \o put_uint32(e.usize)
    \o put_uint16(Len(e.lname)) \o put_uint16(Len(e.lextra) + e.lgap)
    \o e.lname \o e.lextra \o e.data

\* where the local header of entry i starts
RECURSIVE LocalOffset(_, _)
LocalOffset(c, i) ==
  IF i = 1 THEN Len(c.prefix)
  ELSE LocalOffset(c, i - 1) + Len(LocalBlock(c.entries[i - 1]))

CDRecord(e, loff) ==
  put_uint32(e.sig) \o put_uint16(20) \o put_uint16(e.version)
    \o put_uint16(e.flags) \o put_uint16(e.method) \o << 0, 0, 0, 0 >>
    \o put_uint32(e.crc) \o put_uint32(e.csize) \o put_uint32(e.usize)
    \o put_uint16(Len(e.name)) \o put_uint16(Len(e.extra))
    \o put_uint16(Len(e.comment)) \o put_uint16(e.disk) \o put_uint16(0)
    \o put_uint32(0) \o put_uint32(loff) \o e.name \o e.extra \o e.comment

CDOffset(c) == LocalOffset(c, Len(c.entries) + 1)

CDBytes(c) ==
  Concat([i \in 1 .. Len(c.entries) |->
            CDRecord(c.entries[i], LocalOffset(c, i))])

EOCDRecord(c) ==
  put_uint32(c.eocd_sig) \o put_uint16(c.disk_no) \o put_uint16(c.cd_disk)
    \o put_uint16(c.n_disk) \o put_uint16(c.n_total)
    \o put_uint32(Len(CDBytes(c))) \o put_uint32(CDOffset(c) + c.cd_delta)
    \o put_uint16(c.clen) \o c.comment

\* the bytes of the executable with the container appended; cut drops bytes
\* from the end (a truncated file)
Bytes(c) ==
  Let(c.prefix
        \o Concat([i \in 1 .. Len(c.entries) |-> LocalBlock(c.entries[i])])
        \o CDBytes(c) \o EOCDRecord(c),
      LAMBDA all : SubSeq(all, 1, Len(all) - c.cut))

(***************************************************************************)
(* The archive object (class archive of tez.hh).                           *)
(*   files      the unique_ptr<file[]> base: << >> is nullptr, << arr >>   *)
(*              owns the array arr                                         *)
(*   comment    unique_ptr<std::string>: << >> or << bytes >>              *)
(*   state, exc rdstate() and exceptions() of the std::istream `stream`    *)
(*   buf_open   buf.is_open(); fpos is the file position of buf            *)
(*   streampos  the position read_for_file believes the file is at         *)
(***************************************************************************)
IosAll == {"eof", "fail", "bad"}

NoMap == [n \in {} |-> 0]

\* a value-initialized TEZ::file, as make_unique<file[]>(n) creates it
EmptyFile ==
  [offset |-> 0, crc32 |-> 0, compressed_size |-> 0, uncompressed_size |-> 0,
   filename |-> << >>, comment |-> << >>, method |-> 0]

\* archive(): stream(&buf), streampos(0); file_count is not initialized
archive(uninit) ==
  [file_count |-> uninit, files |-> << >>, file_map |-> NoMap,
   comment |-> << >>, buf_open |-> FALSE, state |-> {}, exc |-> {},
   fpos |-> 0, streampos |-> 0]

\* basic_ios::clear(st): sets the state, throws when it meets exceptions()
ios_clear(a, st) ==
  [a |-> [a EXCEPT !.state = st], err |-> (st \cap a.exc) # {}]

\* basic_ios::setstate(bits) is clear(rdstate() | bits)
ios_setstate(a, bits) == ios_clear(a, a.state \cup bits)

\* stream.seekg(pos): clears eofbit, then seeks unless the stream has failed
\* or the filebuf is closed
stream_seekg(a, pos) ==
  Let(ios_clear(a, a.state \ {"eof"}), LAMBDA c :
      IF c.err THEN c
      ELSE IF c.a.state # {} \/ ~a.buf_open THEN ios_setstate(c.a, {"fail"})
      ELSE [a |-> [c.a EXCEPT !.fpos = pos], err |-> FALSE])

\* stream.read(buffer, n) on the file `disk`: the bytes read, and eofbit and
\* failbit when fewer than n could be read
stream_read(a, disk, n) ==
  IF a.state # {}
  THEN ios_setstate(a, {"fail"}) @@ [bytes |-> << >>]
  ELSE Let(IF a.buf_open THEN Slice(disk, a.fpos, n) ELSE << >>, LAMBDA got :
         Let([a EXCEPT !.fpos = a.fpos + Len(got)], LAMBDA a1 :
           IF Len(got) # n
           THEN ios_setstate(a1, {"eof", "fail"}) @@ [bytes |-> got]
           ELSE [a |-> a1, err |-> FALSE, bytes |-> got]))

\* get_comment() of the archive and of an entry (the same code): an absent
\* comment becomes an empty one, which is returned
get_comment(o) ==
  IF o.comment = << >>
  THEN [o |-> [o EXCEPT !.comment = << << >> >>], ret |-> << >>]
  ELSE [o |-> o, ret |-> o.comment[1]]

\* purge_comment() of the archive and of an entry: the comment is moved out
\* and released
purge_comment(o) ==
  IF o.comment = << >> THEN [o |-> o, ret |-> << >>]
  ELSE [o |-> [o EXCEPT !.comment = << >>], ret |-> o.comment[1]]

\* a purge that only closes the file and keeps the entries
purge_keeps_entries(a) == ios_setstate([a EXCEPT !.buf_open = FALSE, !.fpos = 0], {})

(***************************************************************************)
(* archive::purge                                                          *)
(***************************************************************************)
purge(a) ==
  ios_setstate([a EXCEPT !.file_count = 0, !.files = << >>,
                         !.buf_open = FALSE, !.fpos = 0,
                         !.file_map = NoMap, !.comment = << >>], {})

(***************************************************************************)
(* archive::read_eocd.  g is the value of the bytes a read outside the     *)
(* buffer finds (the comment range is taken from the record's own length   *)
(* field and is not checked against the buffer).                           *)
(***************************************************************************)
Thrown(a, what) == [a |-> a, err |-> what, cd_offset |-> 0, oob |-> FALSE]

\* a scan from the largest comment length down: the k-th step tries the
\* comment length max_comment_len - k
RECURSIVE scan_eocd_farthest(_, _, _, _)
scan_eocd_farthest(buf, buf_len, k, max_comment_len) ==
  IF k > max_comment_len THEN k
  ELSE IF get_uint32(buf, buf_len - (max_comment_len - k)
                            - END_OF_CENTRAL_DIRECTORY_LEN) = SIG_EOCD
       THEN max_comment_len - k
       ELSE scan_eocd_farthest(buf, buf_len, k + 1, max_comment_len)

\* the smallest comment length at which the signature is found, or max + 1
RECURSIVE scan_eocd(_, _, _, _)
scan_eocd(buf, buf_len, comment_len, max_comment_len) ==
  IF comment_len > max_comment_len THEN comment_len
  ELSE IF get_uint32(buf, buf_len - comment_len - END_OF_CENTRAL_DIRECTORY_LEN)
            = SIG_EOCD
       THEN comment_len
       ELSE scan_eocd(buf, buf_len, comment_len + 1, max_comment_len)

\* the bytes [from, from + len) of buf, g where that is outside buf
comment_text(buf, from, len, g) ==
  [i \in 1 .. len |-> IF from + i <= Len(buf) THEN buf[from + i] ELSE g]

eocd_fields(a, buf, p, g) ==
  IF \E k \in 4 .. 7 : buf[p + k + 1] # 0
  THEN Thrown(a, "multipart zipfiles are not supported")
  ELSE [a |-> [a EXCEPT
                 !.file_count = get_uint16(buf, p + 10),
                 !.files = << [i \in 1 .. get_uint16(buf, p + 10) |-> EmptyFile] >>,
                 !.comment = << comment_text(buf, p + 22,
                                             get_uint16(buf, p + 20), g) >>],
        err |-> "", cd_offset |-> get_uint32(buf, p + 16),
        oob |-> p + 22 + get_uint16(buf, p + 20) > Len(buf)]

\* the search for the signature in the buffer that was read, and the rest
eocd_search(a, buf, buf_len, max_comment_len, g) ==
  Let(scan_eocd(buf, buf_len, 0, max_comment_len), LAMBDA comment_len :
      IF comment_len > max_comment_len
      THEN Thrown(a, "executable does not appear to contain a zipfile")
      ELSE eocd_fields(a, buf,
                       buf_len - comment_len - END_OF_CENTRAL_DIRECTORY_LEN, g))

\* the seek to seek_off and the read of the last buf_len bytes
eocd_read(a, disk, seek_off, max_comment_len, g) ==
  IF max_comment_len < 0
  THEN Thrown(a, "executable too small to possibly be a zipfile")
  ELSE Let(stream_seekg(a, seek_off), LAMBDA sk :
       IF sk.err THEN Thrown(sk.a, "ios_base::failure")
       ELSE Let(stream_read(sk.a, disk,
                            max_comment_len + END_OF_CENTRAL_DIRECTORY_LEN),
                LAMBDA rd :
            IF rd.err THEN Thrown(rd.a, "ios_base::failure")
            ELSE eocd_search(rd.a, rd.bytes,
                             max_comment_len + END_OF_CENTRAL_DIRECTORY_LEN,
                             max_comment_len, g)))

read_eocd(a, disk, file_size, g) ==
  Let((file_size - MaxCommentLen) - END_OF_CENTRAL_DIRECTORY_LEN,
      LAMBDA seek_off :
        IF seek_off < 0
        THEN eocd_read(a, disk, 0, MaxCommentLen + seek_off, g)
        ELSE eocd_read(a, disk, seek_off, MaxCommentLen, g))

(***************************************************************************)
(* archive::read_central_directory                                         *)
(***************************************************************************)
\* the fields of a record with the two sizes taken from each other's place
cd_fields_sizes_swapped(buf) ==
  [signature |-> get_uint32(buf, 0),
   version_needed |-> get_uint16(buf, 6),
   general_bitflag |-> get_uint16(buf, 8),
   method |-> get_uint16(buf, 10),
   crc32 |-> get_uint32(buf, 16),
   compressed_size |-> get_uint32(buf, 24),
   uncompressed_size |-> get_uint32(buf, 20),
   filename_length |-> get_uint16(buf, 28),
   extra_length |-> get_uint16(buf, 30),
   comment_length |-> get_uint16(buf, 32),
   disk_number |-> get_uint16(buf, 34),
   offset |-> get_uint32(buf, 42)]

\* the fixed fields of one central directory record, at the offsets of the code
cd_fields(buf) ==
  [signature |-> get_uint32(buf, 0),
   version_needed |-> get_uint16(buf, 6),
   general_bitflag |-> get_uint16(buf, 8),
   method |-> get_uint16(buf, 10),
   crc32 |-> get_uint32(buf, 16),
   compressed_size |-> get_uint32(buf, 20),
   uncompressed_size |-> get_uint32(buf, 24),
   filename_length |-> get_uint16(buf, 28),
   extra_length |-> get_uint16(buf, 30),
   comment_length |-> get_uint16(buf, 32),
   disk_number |-> get_uint16(buf, 34),
   offset |-> get_uint32(buf, 42)]

\* the checks of a record with the method looked at before the version
cd_reject_method_first(f) ==
  IF f.signature # SIG_CD THEN "central directory is corrupted"
  ELSE IF f.method # METHOD_STORE /\ f.method # METHOD_DEFLATE
       THEN "zipfile uses a compression method other than deflate"
  ELSE IF f.version_needed > VERSION_MAX THEN "zipfile is not PKZIP 2.0 compatible"
  ELSE IF BitAnd(f.general_bitflag, GPBF_ENCRYPTED)
       THEN "zipfile contains an encrypted member"
  ELSE IF BitAnd(f.general_bitflag, GPBF_DATA_DESCRIPTOR)
       THEN "zipfile uses Data Descriptors"
  ELSE IF BitAnd(f.general_bitflag, GPBF_UNSUPPORTED)
       THEN "zipfile member uses unsupported GPBF flags"
  ELSE IF f.disk_number > 0 THEN "multipart zipfiles are not supported"
  ELSE ""

\* the check that rejects a record, in the order of the code; "" when none does
cd_reject(f) ==
  IF f.signature # SIG_CD THEN "central directory is corrupted"
  ELSE IF f.version_needed > VERSION_MAX THEN "zipfile is not PKZIP 2.0 compatible"
  ELSE IF BitAnd(f.general_bitflag, GPBF_ENCRYPTED)
       THEN "zipfile contains an encrypted member"
  ELSE IF BitAnd(f.general_bitflag, GPBF_DATA_DESCRIPTOR)
       THEN "zipfile uses Data Descriptors"
  ELSE IF BitAnd(f.general_bitflag, GPBF_UNSUPPORTED)
       THEN "zipfile member uses unsupported GPBF flags"
  ELSE IF f.method # METHOD_STORE /\ f.method # METHOD_DEFLATE
       THEN "zipfile uses a compression method other than deflate"
  ELSE IF f.disk_number > 0 THEN "multipart zipfiles are not supported"
  ELSE ""

\* the fields of the file object that one record sets
cd_entry(file, f) ==
  [file EXCEPT !.method = f.method, !.crc32 = f.crc32,
               !.compressed_size = f.compressed_size,
               !.uncompressed_size = f.uncompressed_size,
               !.offset = f.offset]

CdThrown(a, what, fileno) ==
  [a |-> a, err |-> what, filenames |-> << >>, parsed |-> fileno]

\* the loop over the records; fileno counts from 0 as in the code.  The
\* record's comment is read into the archive's `comment` member.
\* one record after its fixed part was read and accepted: the entry is
\* filled, then the name is read, the extra field skipped, the comment read.
\* The result: the archive, what was thrown ("" for nothing), and the name
cd_record(a, disk, fileno, f) ==
  Let(stream_read([a EXCEPT
                     !.files = << [a.files[1] EXCEPT
                                     ![fileno + 1] = cd_entry(@, f)] >>],
                  disk, f.filename_length),
      LAMBDA rn :
        IF rn.err THEN [a |-> rn.a, err |-> "ios_base::failure", name |-> << >>]
        ELSE Let(stream_seekg(rn.a, rn.a.fpos + f.extra_length), LAMBDA sk :
          IF sk.err
          THEN [a |-> sk.a, err |-> "ios_base::failure", name |-> << >>]
          ELSE Let(stream_read(sk.a, disk, f.comment_length), LAMBDA rc :
            IF rc.err
            THEN [a |-> rc.a, err |-> "ios_base::failure", name |-> << >>]
            ELSE [a |-> [rc.a EXCEPT !.comment = << rc.bytes >>], err |-> "",
                  name |-> rn.bytes])))

\* the fixed part of one record is read and checked
cd_checked(a, disk, fileno) ==
  Let(stream_read(a, disk, CENTRAL_DIRECTORY_RECORD_LEN), LAMBDA rd :
      IF rd.err THEN [a |-> rd.a, err |-> "ios_base::failure", name |-> << >>]
      ELSE Let(cd_fields(rd.bytes), LAMBDA f :
        Let(cd_reject(f), LAMBDA why :
          IF why # "" THEN [a |-> rd.a, err |-> why, name |-> << >>]
          ELSE cd_record(rd.a, disk, fileno, f))))

RECURSIVE cd_loop(_, _, _, _)
cd_loop(a, disk, fileno, filenames) ==
  IF fileno >= a.file_count
  THEN [a |-> a, err |-> "", filenames |-> filenames, parsed |-> fileno]
  ELSE Let(cd_checked(a, disk, fileno), LAMBDA r :
         IF r.err # "" THEN CdThrown(r.a, r.err, fileno)
         ELSE cd_loop(r.a, disk, fileno + 1, Append(filenames, r.name)))

\* file_map.emplace(filename, fileno) for fileno = 0, 1, ...: emplace does
\* nothing when the key is already there.  Indexes count from 1 here.
build_file_map(filenames) ==
  [n \in {filenames[i] : i \in 1 .. Len(filenames)} |->
     CHOOSE i \in 1 .. Len(filenames) :
       /\ filenames[i] = n
       /\ \A j \in 1 .. Len(filenames) : filenames[j] = n => i <= j]

\* (*this)[it->second].filename = &it->first, for every element of file_map
set_filenames(arr, file_map) ==
  [i \in 1 .. Len(arr) |->
     IF \E n \in DOMAIN file_map : file_map[n] = i
     THEN [arr[i] EXCEPT
             !.filename = << CHOOSE n \in DOMAIN file_map : file_map[n] = i >>]
     ELSE arr[i]]

(***************************************************************************)
(* file::read_header: the entry's offset becomes the start of its data     *)
(***************************************************************************)
\* a data offset that leaves the extra field of the local header out
data_offset_no_extra(offset, buf) ==
  offset + LOCAL_FILE_HEADER_LEN + get_uint16(buf, 26)

data_offset(offset, buf) ==
  offset + LOCAL_FILE_HEADER_LEN + get_uint16(buf, 26) + get_uint16(buf, 28)

read_header(a, disk, i) ==
  Let(stream_seekg(a, a.files[1][i].offset), LAMBDA sk :
    IF sk.err THEN [a |-> sk.a, err |-> "ios_base::failure"]
    ELSE Let(stream_read(sk.a, disk, LOCAL_FILE_HEADER_LEN), LAMBDA rd :
      IF rd.err THEN [a |-> rd.a, err |-> "ios_base::failure"]
      ELSE IF get_uint32(rd.bytes, 0) # SIG_LOCAL
      THEN [a |-> rd.a, err |-> "file header is corrupted"]
      ELSE [a |-> [rd.a EXCEPT
                     !.files = << [rd.a.files[1] EXCEPT
                                     ![i].offset = data_offset(@, rd.bytes)] >>],
            err |-> ""]))

RECURSIVE header_loop(_, _, _)
header_loop(a, disk, i) ==
  IF i > a.file_count THEN [a |-> a, err |-> ""]
  ELSE Let(read_header(a, disk, i), LAMBDA h :
         IF h.err # "" THEN h ELSE header_loop(h.a, disk, i + 1))

\* the name map is filled, the entries get their names, the headers are read
cd_finish(a, disk, file_map, parsed) ==
  Let(header_loop([a EXCEPT !.file_map = file_map,
                            !.files = << set_filenames(a.files[1], file_map) >>],
                  disk, 1),
      LAMBDA hd : [a |-> hd.a, err |-> hd.err, parsed |-> parsed])

read_central_directory(a, disk, cd_offset) ==
  Let(stream_seekg(a, cd_offset), LAMBDA sk :
    IF sk.err THEN [a |-> sk.a, err |-> "ios_base::failure", parsed |-> 0]
    ELSE Let(cd_loop(sk.a, disk, 0, << >>), LAMBDA cd :
      IF cd.err # "" THEN [a |-> cd.a, err |-> cd.err, parsed |-> cd.parsed]
      ELSE cd_finish(cd.a, disk, build_file_map(cd.filenames), cd.parsed)))

(***************************************************************************)
(* archive::init.  openable: whether the executable can be opened.         *)
(* The result: the archive afterwards, what was thrown ("" for success),   *)
(* how many directory records had been parsed, and whether read_eocd read  *)
(* outside its buffer.                                                     *)
(***************************************************************************)
InitResult(a, err, parsed, oob) ==
  [a |-> a, err |-> err, parsed |-> parsed, oob |-> oob]

\* catch(...) { purge(); throw; }: an exception leaving purge replaces the
\* one being handled
init_catch(a, err, parsed, oob) ==
  Let(purge(a), LAMBDA p :
    InitResult(p.a, IF p.err THEN "ios_base::failure" ELSE err, parsed, oob))

init_try(a, disk, g) ==
  Let(ios_clear([a EXCEPT !.exc = IosAll], a.state), LAMBDA ex :
    IF ex.err THEN init_catch(ex.a, "ios_base::failure", 0, FALSE)
    ELSE Let(stream_seekg(ex.a, Len(disk)), LAMBDA sk :
      IF sk.err THEN init_catch(sk.a, "ios_base::failure", 0, FALSE)
      ELSE Let(read_eocd(sk.a, disk, Len(disk), g), LAMBDA eo :
        IF eo.err # "" THEN init_catch(eo.a, eo.err, 0, eo.oob)
        ELSE Let(read_central_directory(eo.a, disk, eo.cd_offset), LAMBDA cd :
          IF cd.err # "" THEN init_catch(cd.a, cd.err, cd.parsed, eo.oob)
          ELSE InitResult(cd.a, "", cd.parsed, eo.oob)))))

init(a, disk, openable, g) ==
  Let(purge(a), LAMBDA p :
    IF p.err THEN InitResult(p.a, "ios_base::failure", 0, FALSE)
    ELSE IF ~openable THEN InitResult(p.a, "std::system_error", 0, FALSE)
    ELSE init_try([p.a EXCEPT !.buf_open = TRUE, !.fpos = 0], disk, g))

(***************************************************************************)
(* The executables the model is run on                                     *)
(***************************************************************************)
Exe == << 127, 69, 76 >>

\* "a": stored, content "hi!", comment "C"
EntryA == Stored(<< 97 >>, << 104, 105, 33 >>, << 67 >>)

\* "b": deflated, content "dddf", comment "D"
EntryB ==
  Deflated(<< 98 >>, << 100, 100, 100, 102 >>,
           << Z.nop, 100, Z.rep, 102, Z.fin >>, << 68 >>)

\* a second entry named "a"
EntryA2 == Stored(<< 97 >>, << 120 >>, << >>)

Good2 == Container(Exe, << EntryA, EntryB >>, << 90 >>)

\* "c": as "b" with a checksum that is not that of its content
EntryBadCrc == [EntryB EXCEPT !.name = << 99 >>, !.lname = << 99 >>, !.crc = @ + 1]

\* "m", "l": content "de", declared as 1 byte and as 3 bytes
EntryMore ==
  [Deflated(<< 109 >>, << 100, 101 >>, << 100, 101, Z.fin >>, << >>)
     EXCEPT !.usize = 1]

EntryLess ==
  [Deflated(<< 108 >>, << 100, 101 >>, << 100, 101, Z.fin >>, << >>)
     EXCEPT !.usize = 3]

\* "r": deflated, content "dddddf"; its second chunk of compressed bytes is
\* not used up when the output buffer is full
EntryRun ==
  Deflated(<< 114 >>, << 100, 100, 100, 100, 100, 102 >>,
           << 100, Z.rep, Z.rep, 102, Z.fin >>, << >>)

\* the executable the streams are run on
StreamZip ==
  Container(Exe, << EntryA, EntryB, EntryBadCrc, EntryMore, EntryLess,
                    EntryRun >>, << >>)

\* "g": stored, with a local header whose extra-field length points beyond
\* the end of the executable
EntryGap == [Stored(<< 103 >>, << 120, 121 >>, << >>) EXCEPT !.lgap = 1000]

\* the executable on which reads fail
FailZip == Container(Exe, << EntryA, EntryB, EntryBadCrc, EntryGap >>, << >>)

\* a comment one byte longer than the scanner of read_eocd looks for
LongComment == [i \in 1 .. MaxCommentLen + 1 |-> 88]

ArchiveContainers ==
  << Good2,
     Container(Exe, << >>, << >>),
     Container(Exe, << >>, << 90, 89 >>),
     Container(Exe, << EntryA >>, << >>),
     Container(Exe, << EntryA, EntryA2 >>, << >>),
     Container(Exe, << [EntryA EXCEPT !.flags = 2048 + 4 + 2] >>, << >>),
     [Good2 EXCEPT !.n_disk = 0],
     Container(Exe, << [EntryA EXCEPT !.lname = << 97, 97 >>, !.lextra = << 9 >>,
                                      !.extra = << 7, 7 >>], EntryB >>, << >>),
     \* too small, just large enough, no signature, comment longer than the
     \* searched region
     [Container(<< >>, << >>, << >>) EXCEPT !.cut = 1],
     Container(<< >>, << >>, << >>),
     [Good2 EXCEPT !.eocd_sig = SIG_EOCD + 1],
     Container(Exe, << EntryA >>, LongComment),
     \* the signature in the comment: where a record fits, and where none does
     Container(Exe, << EntryA, EntryB >>,
               EOCDRecord(Container(<< >>, << >>, << >>))),
     Container(Exe, << EntryA >>, put_uint32(SIG_EOCD)),
     \* multi-volume
     [Good2 EXCEPT !.disk_no = 1],
     [Good2 EXCEPT !.cd_disk = 256],
     Container(Exe, << EntryA, [EntryB EXCEPT !.disk = 1] >>, << >>),
     \* corrupted central directory
     Container(Exe, << [EntryA EXCEPT !.sig = SIG_CD + 1], EntryB >>, << >>),
     Container(Exe, << EntryA, [EntryB EXCEPT !.sig = SIG_LOCAL] >>, << >>),
     [Good2 EXCEPT !.cd_delta = 1],
     \* unsupported features
     Container(Exe, << EntryA, [EntryB EXCEPT !.version = 21] >>, << >>),
     Container(Exe, << EntryA, [EntryB EXCEPT !.flags = 1] >>, << >>),
     Container(Exe, << EntryA, [EntryB EXCEPT !.flags = 8] >>, << >>),
     Container(Exe, << EntryA, [EntryB EXCEPT !.flags = 64] >>, << >>),
     Container(Exe, << EntryA, [EntryB EXCEPT !.flags = 32768 + 9] >>, << >>),
     Container(Exe, << EntryA, [EntryB EXCEPT !.method = 9] >>, << >>),
     \* more than one thing wrong
     Container(Exe, << EntryA, [EntryB EXCEPT !.sig = SIG_CD + 1,
                                              !.version = 21] >>, << >>),
     Container(Exe, << [EntryA EXCEPT !.disk = 1],
                       [EntryB EXCEPT !.sig = SIG_CD + 1] >>, << >>),
     Container(Exe, << EntryA, [EntryB EXCEPT !.version = 21, !.flags = 1] >>,
               << >>),
     Container(Exe, << EntryA, [EntryB EXCEPT !.flags = 16 + 8, !.method = 9] >>,
               << >>),
     Container(Exe, << [EntryA EXCEPT !.flags = 64, !.method = 9, !.disk = 1],
                       EntryB >>, << >>),
     Container(Exe, << [EntryA EXCEPT !.method = 9, !.disk = 1] >>, << >>),
     [Container(Exe, << [EntryA EXCEPT !.sig = SIG_CD + 1] >>, << >>)
        EXCEPT !.disk_no = 1],
     \* corrupted local header
     Container(Exe, << EntryA, [EntryB EXCEPT !.lsig = SIG_CD] >>, << >>),
     \* short reads: more records declared than present, directory past the end
     [Good2 EXCEPT !.n_total = 3],
     [Good2 EXCEPT !.cd_delta = 1000],
     \* a stored entry declared one byte shorter than its data
     Container(Exe, << [EntryA EXCEPT !.usize = 2] >>, << >>),
     \* the record's comment length field larger than the comment
     [Container(Exe, << >>, << 90 >>) EXCEPT !.clen = 3]
  >>

(***************************************************************************)
(* zlib's inflate on the stand-in format above.                            *)
(*   z.mode  "run", "done" (the end of the stream was decoded), "bad"      *)
(*   z.pend  decoded bytes that did not fit the output buffer yet          *)
(*   z.last  the last byte produced (the window), 0 when there is none     *)
(* inflate(z, zin, avail_out) decodes from the pending input zin until the *)
(* input is used up or the output is full.  It returns Z_STREAM_END at     *)
(* and after the end of the stream, Z_DATA_ERROR on invalid data and       *)
(* Z_BUF_ERROR when it could neither consume nor produce anything.         *)
(***************************************************************************)
inflateReset == [mode |-> "run", pend |-> << >>, last |-> 0]

RECURSIVE inflate_run(_, _, _, _, _)
inflate_run(z, zin, out, room, progress) ==
  LET done(ret) == [z |-> z, zin |-> zin, out |-> out, ret |-> ret]
      idle == IF progress THEN "Z_OK" ELSE "Z_BUF_ERROR"
  IN  IF z.mode = "bad" THEN done("Z_DATA_ERROR")
      ELSE IF z.pend # << >>
      THEN IF room = 0 THEN done(idle)
           ELSE inflate_run([z EXCEPT !.pend = Tail(@), !.last = Head(z.pend)],
                            zin, Append(out, Head(z.pend)), room - 1, TRUE)
      ELSE IF z.mode = "done" THEN done("Z_STREAM_END")
      ELSE IF zin = << >> THEN done(idle)
      ELSE LET c == Head(zin)
               z1 == IF c = Z.nop THEN z
                     ELSE IF c = Z.fin THEN [z EXCEPT !.mode = "done"]
                     ELSE IF c = Z.bad \/ (c = Z.rep /\ z.last = 0)
                          THEN [z EXCEPT !.mode = "bad"]
                     ELSE IF c = Z.rep
                          THEN [z EXCEPT !.pend = << z.last, z.last >>]
                     ELSE [z EXCEPT !.pend = << c >>]
           IN  inflate_run(z1, Tail(zin), out, room, TRUE)

inflate(z, zin, avail_out) == inflate_run(z, zin, << >>, avail_out, FALSE)

(***************************************************************************)
(* A stream: the istream returned by file::open with its streambuf.        *)
(*   kind       "none", "stored" (stored_data_streambuf) or "deflated"     *)
(*   start_pos, cur_pos, end_pos             the stored streambuf          *)
(*   in_start_pos .. desired_crc, crc, z, zin  the deflated streambuf; zin *)
(*              is the part of in_buffer not yet consumed (next_in,        *)
(*              avail_in)                                                  *)
(*   gbuf, gnext  the get area: gbuf is [eback, egptr), gnext is           *)
(*              gptr - eback                                               *)
(*   ios        rdstate() of the istream                                   *)
(*   pc, call   where the thread is inside an istream call                 *)
(*   need, acc  the bytes istream::read still wants and those it copied    *)
(*   off        the target of seekpos after clamping                       *)
(*   roff, rlen, rbuf  the pending read_for_file(buffer, offset, length);  *)
(*              rph is how far it got: "call", "locked", "seeked", "read"  *)
(*   ufres      what the last underflow returned or threw                  *)
(* and for stating the properties:                                         *)
(*   entry      the index of the entry it was opened on                    *)
(*   got        the bytes the reads delivered since the last seekg         *)
(*   sk_o, sk_c, sk_res, sk_dirty  the last seekg: its argument, the       *)
(*              cursor before it, what seekpos returned (-1 for failure,   *)
(*              -2 while none has returned), and whether the get area      *)
(*              held unread bytes before it                                *)
(*   sk_first, sk_good  whether the last seekg was the first one on the    *)
(*              stream, and whether the stream was good() when it began    *)
(*   seeked, cleared  whether seekg was ever called, and whether clear()   *)
(*              was called since the last seekg                            *)
(*   produced   the bytes produced since the CRC accumulator was reset     *)
(*   resets     whether seekpos has reset the decompressor in the last     *)
(*              seekg                                                      *)
(*   threw      what was last thrown inside the stream since the           *)
(*              decompressor was last reset, "" when nothing was           *)
(*   tell       what tellg returned when it was the last call on the       *)
(*              stream, -2 otherwise                                       *)
(***************************************************************************)
NoStream ==
  [kind |-> "none", entry |-> 0,
   start_pos |-> 0, cur_pos |-> 0, end_pos |-> 0,
   in_start_pos |-> 0, in_cur_pos |-> 0, in_end_pos |-> 0,
   out_cur_pos |-> 0, out_end_pos |-> 0, desired_crc |-> 0, crc |-> 0,
   z |-> inflateReset, zin |-> << >>,
   gbuf |-> << >>, gnext |-> 0, ios |-> {},
   pc |-> "idle", call |-> "none", need |-> 0, acc |-> << >>, off |-> 0,
   roff |-> 0, rlen |-> 0, rbuf |-> << >>, rph |-> "none", ufres |-> "none",
   got |-> << >>, sk_o |-> 0, sk_c |-> 0, sk_res |-> -2, sk_dirty |-> FALSE,
   sk_first |-> FALSE, sk_good |-> FALSE, seeked |-> FALSE, cleared |-> FALSE,
   produced |-> << >>, resets |-> FALSE, threw |-> "", tell |-> -2]

\* stored_data_streambuf(tez, start_pos, end_pos)
stored_data_streambuf(i, start_pos, end_pos) ==
  [NoStream EXCEPT !.kind = "stored", !.entry = i, !.start_pos = start_pos,
                   !.cur_pos = start_pos, !.end_pos = end_pos]

\* deflated_streambuf(tez, start_pos, end_pos, uncompressed_size, desired_crc)
deflated_streambuf(i, start_pos, end_pos, uncompressed_size, desired_crc) ==
  [NoStream EXCEPT !.kind = "deflated", !.entry = i,
                   !.in_start_pos = start_pos, !.in_cur_pos = start_pos,
                   !.in_end_pos = end_pos, !.out_cur_pos = 0,
                   !.out_end_pos = uncompressed_size,
                   !.desired_crc = desired_crc]

\* assert(compressed_size == uncompressed_size) of file::open, which is
\* reached for every method but deflate
open_assert(file) ==
  file.method = METHOD_DEFLATE \/ file.compressed_size = file.uncompressed_size

\* file::open
open(file, i) ==
  IF file.method = METHOD_DEFLATE
  THEN deflated_streambuf(i, file.offset, file.offset + file.compressed_size,
                          file.uncompressed_size, file.crc32)
  ELSE stored_data_streambuf(i, file.offset, file.offset + file.uncompressed_size)

(***************************************************************************)
(* The code a thread runs inside one istream call, cut into steps at the   *)
(* calls of read_for_file.  pc is                                          *)
(*   "xsgetn"      the copy loop of istream::read (streambuf::xsgetn)      *)
(*   "uf"          the entry of underflow                                  *)
(*   "uf_fill"     deflated underflow: the top of the do loop              *)
(*   "rff"         inside archive::read_for_file                           *)
(*   "uf_back"     read_for_file has returned                              *)
(*   "uf_inflate"  deflated underflow: the inflate call and what follows   *)
(*   "uf_ret"      underflow returns to uflow or to the loop of seekpos    *)
(*   "sk_end"      deflated seekpos after its loop                         *)
(*   "rd_done"     istream::read returns                                   *)
(*   "throw"       an exception reaches the istream, which sets badbit     *)
(*   "idle"        no call is running                                      *)
(*   "hung"        a loop that never ends, "crashed" the process died      *)
(***************************************************************************)
Blocked(s) == s.pc \in {"idle", "rff", "hung", "crashed"}

\* tez.read_for_file(buffer, offset, length) is called
call_read_for_file(s, offset, length) ==
  [s EXCEPT !.pc = "rff", !.rph = "call", !.roff = offset, !.rlen = length,
            !.rbuf = << >>]

\* streambuf::xsgetn: copy what the get area holds, then uflow for more.  A
\* get pointer beyond the end of the get area is undefined: ub says whether
\* the copy of a negative length kills the process ("crash") or the area
\* counts as empty ("empty")
xsgetn(s, ub) ==
  LET buf_len == Len(s.gbuf) - s.gnext
      len == Min(buf_len, s.need - Len(s.acc))
  IN  IF Len(s.acc) >= s.need THEN [s EXCEPT !.pc = "rd_done"]
      ELSE IF buf_len < 0
      THEN IF ub = "crash" THEN [s EXCEPT !.pc = "crashed"]
           ELSE [s EXCEPT !.pc = "uf"]
      ELSE IF buf_len > 0
      THEN [s EXCEPT !.acc = @ \o SubSeq(s.gbuf, s.gnext + 1, s.gnext + len),
                     !.gnext = @ + len]
      ELSE [s EXCEPT !.pc = "uf"]

\* stored_data_streambuf::underflow up to its read_for_file
stored_underflow(s) ==
  IF s.cur_pos = s.end_pos THEN [s EXCEPT !.pc = "uf_ret", !.ufres = "eof"]
  ELSE call_read_for_file(s, s.cur_pos, Min(s.end_pos - s.cur_pos, BufSize))

\* ... and after it
stored_underflow_back(s) ==
  [s EXCEPT !.cur_pos = @ + s.rlen, !.gbuf = s.rbuf, !.gnext = 0,
            !.pc = "uf_ret", !.ufres = "char"]

\* deflated_streambuf::underflow: the entry
deflated_underflow(s) ==
  IF s.out_cur_pos = s.out_end_pos
  THEN [s EXCEPT !.pc = "uf_ret", !.ufres = "eof"]
  ELSE [s EXCEPT !.pc = "uf_fill"]

\* the top of the do loop: fetch compressed bytes when avail_in == 0
deflated_fill(s) ==
  IF s.zin = << >>
  THEN call_read_for_file(s, s.in_cur_pos,
                          Min(s.in_end_pos - s.in_cur_pos, BufSize))
  ELSE [s EXCEPT !.pc = "uf_inflate"]

deflated_fill_back(s) ==
  [s EXCEPT !.in_cur_pos = @ + s.rlen, !.zin = s.rbuf, !.pc = "uf_inflate"]

\* a checksum that is never compared
crc_never_failed(out_cur_pos, out_end_pos, crc, desired_crc) == FALSE

\* whether the last produced byte must pass the checksum
crc_failed(out_cur_pos, out_end_pos, crc, desired_crc) ==
  out_cur_pos = out_end_pos /\ crc # desired_crc

\* after the do loop: setg, crc.update, out_cur_pos, the checksum; s is the
\* stream after inflate, out what inflate produced
deflated_produce(s, out) ==
  Let([s EXCEPT !.gbuf = out, !.gnext = 0, !.crc = crc32(@, out),
                !.produced = @ \o out, !.out_cur_pos = @ + Len(out)],
      LAMBDA s2 :
        IF crc_failed(s2.out_cur_pos, s2.out_end_pos, s2.crc, s2.desired_crc)
        THEN [s2 EXCEPT !.pc = "throw", !.threw = "checksum mismatch",
                        !.ufres = "checksum mismatch"]
        ELSE [s2 EXCEPT !.pc = "uf_ret", !.ufres = "char"])

\* what follows inflate, r being its result: the check of ret, the loop
\* condition (nothing produced: once more), and the rest of underflow.  When
\* the stream has ended and input is left, every further turn of the loop
\* does the same: it never ends
deflated_inflated(s, r) ==
  IF r.ret \notin {"Z_OK", "Z_STREAM_END"}
  THEN [s EXCEPT !.z = r.z, !.zin = r.zin, !.pc = "throw",
                 !.threw = "zlib error", !.ufres = "zlib error"]
  ELSE IF r.out = << >>
  THEN [s EXCEPT !.z = r.z, !.zin = r.zin,
                 !.pc = IF r.z.mode = "done" /\ r.zin # << >> THEN "hung"
                        ELSE "uf_fill"]
  ELSE deflated_produce([s EXCEPT !.z = r.z, !.zin = r.zin], r.out)

\* the inflate call of underflow
deflated_inflate(s) == deflated_inflated(s, inflate(s.z, s.zin, BufSize))

\* the condition of the while loop of deflated seekpos, after underflow has
\* returned something other than eof
seek_again(out_cur_pos, off) == out_cur_pos >= off

\* underflow returns: to uflow (called by xsgetn), or to the loop of seekpos
underflow_return(s) ==
  IF s.call = "read"
  THEN IF s.ufres = "eof" THEN [s EXCEPT !.pc = "rd_done"]
       ELSE [s EXCEPT !.acc = Append(@, s.gbuf[1]), !.gnext = 1, !.pc = "xsgetn"]
  ELSE IF s.ufres # "eof" /\ seek_again(s.out_cur_pos, s.off)
       THEN [s EXCEPT !.pc = "uf"]
       ELSE [s EXCEPT !.pc = "sk_end"]

\* seekpos returns v to the istream: seekg sets failbit when v is -1, tellg
\* hands v on
seek_result(s, v) ==
  IF s.call = "tell" THEN [s EXCEPT !.pc = "idle", !.call = "none", !.tell = v]
  ELSE [s EXCEPT !.pc = "idle", !.call = "none", !.sk_res = v,
                 !.ios = IF v = -1 THEN @ \cup {"fail"} ELSE @]

\* deflated seekpos after the loop
deflated_seek_end(s) ==
  IF s.out_cur_pos = s.out_end_pos THEN seek_result(s, -1)
  ELSE seek_result([s EXCEPT !.gnext = Len(s.gbuf) - (s.out_cur_pos - s.off)],
                   s.out_cur_pos)

\* istream::read returns: gcount is the number of bytes copied
read_done(s) ==
  [s EXCEPT !.pc = "idle", !.call = "none", !.got = @ \o s.acc,
            !.ios = IF Len(s.acc) # s.need THEN @ \cup {"eof", "fail"} ELSE @]

\* catch(...) in istream::read, seekg and tellg: badbit, gcount stays 0
istream_catch(s) ==
  [s EXCEPT !.pc = "idle", !.call = "none", !.ios = @ \cup {"bad"},
            !.sk_res = IF s.call = "seek" THEN -1 ELSE @,
            !.tell = IF s.call = "tell" THEN -1 ELSE @]

Step(s, ub) ==
  CASE s.pc = "xsgetn" -> xsgetn(s, ub)
    [] s.pc = "uf" ->
         IF s.kind = "stored" THEN stored_underflow(s) ELSE deflated_underflow(s)
    [] s.pc = "uf_fill" -> deflated_fill(s)
    [] s.pc = "uf_back" ->
         IF s.kind = "stored" THEN stored_underflow_back(s)
         ELSE deflated_fill_back(s)
    [] s.pc = "uf_inflate" -> deflated_inflate(s)
    [] s.pc = "uf_ret" -> underflow_return(s)
    [] s.pc = "sk_end" -> deflated_seek_end(s)
    [] s.pc = "rd_done" -> read_done(s)
    [] s.pc = "throw" -> istream_catch(s)

RECURSIVE Run(_, _)
Run(s, ub) ==
  Eval(s, LAMBDA v : IF Blocked(v) THEN v ELSE Run(Step(v, ub), ub))

(***************************************************************************)
(* The calls on the istream                                                *)
(***************************************************************************)
\* showmanyc() of the two streambufs: end minus cursor in uint32_t, given
\* with the borrow of the subtraction: with borrow the value returned is
\* 2^32 + diff
showmanyc(s) ==
  Let(IF s.kind = "stored" THEN s.end_pos - s.cur_pos
      ELSE s.out_end_pos - s.out_cur_pos,
      LAMBDA d : [borrow |-> d < 0, diff |-> d])

\* istream::read(buffer, n)
istream_read(s, n, ub) ==
  IF s.ios # {} THEN [s EXCEPT !.ios = @ \cup {"fail"}, !.tell = -2]
  ELSE Run([s EXCEPT !.call = "read", !.need = n, !.acc = << >>,
                     !.pc = "xsgetn", !.tell = -2], ub)

\* the clamping of seekpos
clamp(off, size) == IF off < 0 THEN 0 ELSE IF off > size THEN size ELSE off

\* stored_data_streambuf::seekpos
stored_seekpos(s, pos) ==
  LET off == clamp(pos, s.end_pos - s.start_pos)
  IN  [s EXCEPT !.cur_pos = s.start_pos + off, !.sk_res = off]

\* deflated_streambuf::seekpos up to its first underflow
deflated_seekpos(s, pos, ub) ==
  LET off == clamp(pos, s.out_end_pos)
      s1 == IF off < s.out_cur_pos
            THEN [s EXCEPT !.z = inflateReset, !.crc = 0, !.produced = << >>,
                           !.in_cur_pos = s.in_start_pos, !.out_cur_pos = 0,
                           !.resets = TRUE, !.threw = ""]
            ELSE s
  IN  IF off = s1.out_cur_pos
      THEN [s1 EXCEPT !.gbuf = << >>, !.gnext = 0, !.sk_res = s1.out_cur_pos]
      ELSE Run([s1 EXCEPT !.call = IF s.call = "tell" THEN "tell" ELSE "seek",
                          !.off = off, !.pc = "uf"], ub)

\* istream::seekg(pos): clears eofbit, and seeks unless the stream has failed
istream_seekg(s, pos, ub) ==
  LET s1 == [s EXCEPT !.ios = @ \ {"eof"}, !.got = << >>, !.sk_o = pos,
                      !.sk_c = IF s.kind = "stored" THEN s.cur_pos - s.start_pos
                               ELSE s.out_cur_pos,
                      !.sk_dirty = s.gnext < Len(s.gbuf), !.sk_res = -2,
                      !.sk_first = ~s.seeked, !.sk_good = (s.ios \ {"eof"} = {}),
                      !.seeked = TRUE, !.cleared = FALSE, !.resets = FALSE,
                      !.tell = -2]
  IN  IF s1.ios # {} THEN [s1 EXCEPT !.ios = @ \cup {"fail"}, !.sk_res = -1]
      ELSE IF s.kind = "stored" THEN stored_seekpos(s1, pos)
      ELSE deflated_seekpos(s1, pos, ub)

\* seekoff(off, cur) of the two streambufs: seekpos at the cursor plus off
seekoff_cur(s, off, ub) ==
  IF s.kind = "stored" THEN stored_seekpos(s, off + (s.cur_pos - s.start_pos))
  ELSE deflated_seekpos(s, off + s.out_cur_pos, ub)

\* istream::tellg(): -1 on a stream that is not good, else
\* pubseekoff(0, cur); what seekpos returns at once is handed on here
istream_tellg(s, ub) ==
  IF s.ios # {} THEN [s EXCEPT !.ios = @ \cup {"fail"}, !.tell = -1]
  ELSE Let(seekoff_cur([s EXCEPT !.call = "tell", !.tell = -2], 0, ub),
           LAMBDA r :
             IF r.call = "tell" /\ r.pc = "idle"
             THEN [r EXCEPT !.call = "none", !.tell = r.sk_res,
                            !.sk_res = s.sk_res]
             ELSE r)

\* istream::clear()
istream_clear(s) == [s EXCEPT !.ios = {}, !.cleared = TRUE]

(***************************************************************************)
(* The state machine.                                                      *)
(*   zip     the layout of the executable (for stating the properties)     *)
(*   disk    the bytes of the executable, /proc/self/exe                   *)
(*   tez     the archive object                                            *)
(*   mutex   archive::mutex: 0 when free, else the thread that holds it    *)
(*   th      the stream of each thread                                     *)
(*   last    the last call on the archive and how it ended                 *)
(***************************************************************************)
VARIABLES zip, disk, tez, mutex, th, last

vars == << zip, disk, tez, mutex, th, last >>

Threads == 1 .. NThreads

UB == {"crash", "empty"}

\* last: op is the call, err what init or purge threw, parsed and oob are
\* init's; who is what get_comment or purge_comment was called on (0 the
\* archive, i the entry i), ret what it returned, held the comment that was
\* there before the call, was_purged whether purge_comment had been called
\* on the same object before; purged is the set of the objects on which
\* purge_comment was ever called; name is the name that find or operator[]
\* was given, and who the position it returned; stale[t] is -1, or, when
\* purge or init was called on the archive since the stream of thread t was
\* opened, the number of bytes the stream had delivered by then
NoCall ==
  [op |-> "none", err |-> "", parsed |-> 0, oob |-> FALSE, who |-> 0,
   ret |-> << >>, held |-> << >>, was_purged |-> FALSE, purged |-> {},
   name |-> << >>, stale |-> [t \in Threads |-> -1]]

\* what a call that is not init or purge keeps of last
Kept == [NoCall EXCEPT !.purged = last.purged, !.stale = last.stale]

\* what init and purge keep of it: the entries are new objects, the streams
\* that are open are of the archive as it was
Reset ==
  [NoCall EXCEPT
     !.purged = last.purged \cap {0},
     !.stale = [t \in Threads |->
                  IF th[t].kind = "none" THEN -1
                  ELSE IF last.stale[t] >= 0 THEN last.stale[t]
                  ELSE Len(th[t].got)]]

Quiet == mutex = 0 /\ \A t \in Threads : th[t].pc \in {"idle", "crashed"}

\* a lock that does not exclude
lock_always(m) == TRUE

\* a position that is taken to be right whatever it is
never_seek(streampos, offset) == FALSE

\* std::unique_lock<std::mutex> lock(mutex) can be taken
mutex_free(m) == m = 0

\* if(streampos != offset)
seek_needed(streampos, offset) == streampos # offset

\* size() and empty()
size(a) == a.file_count

empty(a) == a.file_count = 0

\* a lookup that takes the first entry for any name
find_first(a, name) == 1

\* begin() and end() as positions: the entries are 1 .. file_count, end() is
\* the position after the last
begin(a) == 1

end(a) == a.file_count + 1

\* find(filename): the position of the entry, or end()
find(a, name) ==
  IF name \notin DOMAIN a.file_map THEN end(a)
  ELSE begin(a) + (a.file_map[name] - 1)

\* operator[](filename): the position of the entry, or out_of_range thrown
subscript(a, name) ==
  IF name \notin DOMAIN a.file_map
  THEN [err |-> "file index out of range", at |-> 0]
  ELSE [err |-> "", at |-> a.file_map[name]]

\* file::get_filename of the entry at position i
get_filename(a, i) == a.files[1][i].filename[1]

\* the entries in the order begin() .. end() visits them
iterate(a) ==
  IF a.files = << >> THEN << >> ELSE [i \in 1 .. a.file_count |-> a.files[1][i]]

\* tez.init()
DoInit(openable, g) ==
  /\ Quiet
  /\ Let(init(tez, disk, openable, g), LAMBDA r :
         /\ tez' = r.a
         /\ last' = [Reset EXCEPT !.op = "init", !.err = r.err,
                                  !.parsed = r.parsed, !.oob = r.oob])
  /\ UNCHANGED << zip, disk, mutex, th >>

\* tez.purge()
DoPurge ==
  /\ Quiet
  /\ Let(purge(tez), LAMBDA r :
         /\ tez' = r.a
         /\ last' = [Reset EXCEPT !.op = "purge",
                       !.err = IF r.err THEN "ios_base::failure" ELSE ""])
  /\ UNCHANGED << zip, disk, mutex, th >>

\* what a call of get_comment or purge_comment on `who` leaves in last
Commented(op, who, ret, held) ==
  [Kept EXCEPT !.op = op, !.who = who, !.ret = ret, !.held = held,
               !.was_purged = who \in last.purged,
               !.purged = IF op = "purge_comment" THEN last.purged \cup {who}
                          ELSE last.purged]

\* tez.get_comment()
GetComment ==
  /\ Let(get_comment(tez), LAMBDA r :
         /\ tez' = r.o
         /\ last' = Commented("get_comment", 0, r.ret, r.ret))
  /\ UNCHANGED << zip, disk, mutex, th >>

\* tez.purge_comment()
PurgeComment ==
  /\ Let(purge_comment(tez), LAMBDA r :
         /\ tez' = r.o
         /\ last' = Commented("purge_comment", 0, r.ret, get_comment(tez).ret))
  /\ UNCHANGED << zip, disk, mutex, th >>

\* tez[i].get_comment(), i counted from 1
FileGetComment(i) ==
  /\ tez.files # << >>
  /\ i \in 1 .. tez.file_count
  /\ Let(get_comment(tez.files[1][i]), LAMBDA r :
         /\ tez' = [tez EXCEPT !.files = << [tez.files[1] EXCEPT ![i] = r.o] >>]
         /\ last' = Commented("get_comment", i, r.ret, r.ret))
  /\ UNCHANGED << zip, disk, mutex, th >>

\* tez[i].purge_comment()
FilePurgeComment(i) ==
  /\ tez.files # << >>
  /\ i \in 1 .. tez.file_count
  /\ Let(purge_comment(tez.files[1][i]), LAMBDA r :
         /\ tez' = [tez EXCEPT !.files = << [tez.files[1] EXCEPT ![i] = r.o] >>]
         /\ last' = Commented("purge_comment", i, r.ret,
                              get_comment(tez.files[1][i]).ret))
  /\ UNCHANGED << zip, disk, mutex, th >>

\* tez.find(name)
Find(name) ==
  /\ last' = [Kept EXCEPT !.op = "find", !.name = name,
                          !.who = find(tez, name)]
  /\ UNCHANGED << zip, disk, tez, mutex, th >>

\* tez[name]
Subscript(name) ==
  /\ Let(subscript(tez, name), LAMBDA r :
         last' = [Kept EXCEPT !.op = "subscript", !.name = name,
                              !.err = r.err, !.who = r.at])
  /\ UNCHANGED << zip, disk, tez, mutex, th >>

\* tez[i].open(tez), keeping the stream in thread t; asserts is whether the
\* build has its assertions on: a failed one ends the process
Open(t, i) ==
  /\ th[t].pc = "idle"
  /\ tez.files # << >>
  /\ i \in 1 .. tez.file_count
  /\ \E asserts \in BOOLEAN :
       th' = [th EXCEPT ![t] = IF asserts /\ ~open_assert(tez.files[1][i])
                               THEN [NoStream EXCEPT !.pc = "crashed"]
                               ELSE open(tez.files[1][i], i)]
  /\ last' = [last EXCEPT !.stale[t] = -1]
  /\ UNCHANGED << zip, disk, tez, mutex >>

\* stream.read(buffer, n) in thread t
CallRead(t, n) ==
  /\ th[t].pc = "idle"
  /\ th[t].kind # "none"
  /\ \E ub \in UB : th' = [th EXCEPT ![t] = istream_read(th[t], n, ub)]
  /\ UNCHANGED << zip, disk, tez, mutex, last >>

\* stream.seekg(o) in thread t
CallSeek(t, o) ==
  /\ th[t].pc = "idle"
  /\ th[t].kind # "none"
  /\ \E ub \in UB : th' = [th EXCEPT ![t] = istream_seekg(th[t], o, ub)]
  /\ UNCHANGED << zip, disk, tez, mutex, last >>

\* stream.tellg() in thread t
CallTell(t) ==
  /\ th[t].pc = "idle"
  /\ th[t].kind # "none"
  /\ \E ub \in UB : th' = [th EXCEPT ![t] = istream_tellg(th[t], ub)]
  /\ UNCHANGED << zip, disk, tez, mutex, last >>

\* stream.clear() in thread t
Clear(t) ==
  /\ th[t].pc = "idle"
  /\ th[t].ios # {}
  /\ th' = [th EXCEPT ![t] = istream_clear(th[t])]
  /\ UNCHANGED << zip, disk, tez, mutex, last >>

\* read_for_file leaves with an exception: the lock is released on the way
rff_throw(s, ub) ==
  Run([s EXCEPT !.pc = "throw", !.rph = "none", !.threw = "ios_base::failure",
                !.ufres = "ios_base::failure"], ub)

\* read_for_file: the lock is taken
RffLock(t) ==
  /\ th[t].pc = "rff" /\ th[t].rph = "call"
  /\ mutex_free(mutex)
  /\ mutex' = t
  /\ th' = [th EXCEPT ![t].rph = "locked"]
  /\ UNCHANGED << zip, disk, tez, last >>

\* read_for_file: if(streampos != offset) stream.seekg(offset)
RffSeek(t) ==
  /\ th[t].pc = "rff" /\ th[t].rph = "locked"
  /\ IF seek_needed(tez.streampos, th[t].roff)
     THEN Let(stream_seekg(tez, th[t].roff), LAMBDA sk :
              /\ tez' = sk.a
              /\ IF sk.err
                 THEN /\ mutex' = 0
                      /\ \E ub \in UB :
                           th' = [th EXCEPT ![t] = rff_throw(th[t], ub)]
                 ELSE /\ th' = [th EXCEPT ![t].rph = "seeked"]
                      /\ UNCHANGED mutex)
     ELSE /\ th' = [th EXCEPT ![t].rph = "seeked"]
          /\ UNCHANGED << tez, mutex >>
  /\ UNCHANGED << zip, disk, last >>

\* read_for_file: stream.read(buf, length)
RffRead(t) ==
  /\ th[t].pc = "rff" /\ th[t].rph = "seeked"
  /\ Let(stream_read(tez, disk, th[t].rlen), LAMBDA rd :
         /\ tez' = rd.a
         /\ IF rd.err
            THEN /\ mutex' = 0
                 /\ \E ub \in UB :
                      th' = [th EXCEPT ![t] = rff_throw(th[t], ub)]
            ELSE /\ th' = [th EXCEPT ![t].rph = "read", ![t].rbuf = rd.bytes]
                 /\ UNCHANGED mutex)
  /\ UNCHANGED << zip, disk, last >>

\* read_for_file: streampos = offset + length, and the return, after which
\* the thread runs on to the next read_for_file or to the end of its call
RffDone(t) ==
  /\ th[t].pc = "rff" /\ th[t].rph = "read"
  /\ tez' = [tez EXCEPT !.streampos = th[t].roff + th[t].rlen]
  /\ mutex' = 0
  /\ \E ub \in UB :
       th' = [th EXCEPT ![t] = Run([th[t] EXCEPT !.pc = "uf_back",
                                               !.rph = "none"], ub)]
  /\ UNCHANGED << zip, disk, last >>

Range(seq) == {seq[i] : i \in DOMAIN seq}

InitOn(containers, uninit) ==
  /\ zip \in Range(containers)
  /\ disk = Bytes(zip)
  /\ tez \in {archive(u) : u \in uninit}
  /\ mutex = 0
  /\ th = [t \in Threads |-> NoStream]
  /\ last = NoCall

(***************************************************************************)
(* SpecArchive: init and purge on every executable of ArchiveContainers.   *)
(* file_count is not set by the constructor: it starts as any value.       *)
(***************************************************************************)
Garbage == {0, 255}

\* the names looked up: "a", "b", "z" and the empty name
Names == {<< 97 >>, << 98 >>, << 122 >>, << >>}

InitArchive == InitOn(ArchiveContainers, {0, 3})

NextArchive ==
  \/ \E openable \in BOOLEAN, g \in Garbage : DoInit(openable, g)
  \/ DoPurge
  \/ GetComment
  \/ PurgeComment
  \/ \E i \in 1 .. tez.file_count : FileGetComment(i)
  \/ \E i \in 1 .. tez.file_count : FilePurgeComment(i)
  \/ \E name \in Names : Find(name)
  \/ \E name \in Names : Subscript(name)
  \/ \E i \in 1 .. tez.file_count : Open(1, i)

SpecArchive == InitArchive /\ [][NextArchive]_vars

(***************************************************************************)
(* Properties of init (SpecArchive)                                        *)
(***************************************************************************)
InitFailed == last.op = "init" /\ last.err # ""

InitSucceeded == last.op = "init" /\ last.err = ""

\* the positions of the file at which the scanner of read_eocd looks
EocdCandidates ==
  { q \in Max(0, (Len(disk) - END_OF_CENTRAL_DIRECTORY_LEN) - MaxCommentLen)
           .. Len(disk) - END_OF_CENTRAL_DIRECTORY_LEN :
      get_uint32(disk, q) = SIG_EOCD }

\* the candidate nearest the end of the file
EocdAt == CHOOSE q \in EocdCandidates : \A r \in EocdCandidates : r <= q

\* the archive is the result of a successful init
Usable == tez.buf_open

\* the record nearest the end is the EOCD record of the container, not
\* bytes of its comment that look like one
OwnRecord ==
  EocdAt = (Len(disk) - END_OF_CENTRAL_DIRECTORY_LEN) - Len(zip.comment)

\* C1: when init has failed, for whatever reason, the archive is in the
\* empty state: size() is 0, empty() holds, the entry array is released, the
\* name map and the archive comment are empty, and the file is closed, so
\* that no entry parsed before the failure is kept.
InitFailureLeavesEmpty ==
  InitFailed =>
    /\ size(tez) = 0
    /\ empty(tez)
    /\ tez.files = << >>
    /\ DOMAIN tez.file_map = {}
    /\ tez.comment = << >>
    /\ ~tez.buf_open

\* an init that failed on the local header of an entry, after both records
\* of the central directory had been parsed and the name map filled
InitFailedAfterParsing ==
  /\ last.op = "init"
  /\ last.err = "file header is corrupted"
  /\ last.parsed = 2
  /\ size(tez) = 0

\* C2: after a successful init, size() is the entry count of the EOCD record
\* that was found, and the i-th entry in the order of iteration has the
\* method, CRC, compressed size and uncompressed size of the i-th record of
\* the central directory.
EntriesInDirectoryOrder ==
  InitSucceeded =>
    /\ size(tez) = get_uint16(disk, EocdAt + 10)
    /\ Len(iterate(tez)) = size(tez)
    /\ OwnRecord => size(tez) = zip.n_total
    /\ \A i \in 1 .. size(tez) :
         /\ iterate(tez)[i].method = zip.entries[i].method
         /\ iterate(tez)[i].crc32 = zip.entries[i].crc
         /\ iterate(tez)[i].compressed_size = zip.entries[i].csize
         /\ iterate(tez)[i].uncompressed_size = zip.entries[i].usize

\* a successful init on a directory of a stored entry followed by a deflated
\* one, of different sizes
InitSucceededOnTwo ==
  /\ InitSucceeded
  /\ size(tez) = 2
  /\ iterate(tez)[1].method = METHOD_STORE
  /\ iterate(tez)[2].method = METHOD_DEFLATE
  /\ iterate(tez)[2].compressed_size # iterate(tez)[2].uncompressed_size
  /\ iterate(tez)[1].crc32 # iterate(tez)[2].crc32

(***************************************************************************)
(* Properties of the comments (SpecArchive)                                *)
(***************************************************************************)
\* C12: after a successful init and before any purge_comment on the
\* archive, get_comment() of the archive returns the comment bytes of the
\* end of central directory record, those that follow its length field,
\* whatever the comments of the entries are.
ArchiveCommentIsEocdComment ==
  ( /\ Usable /\ last.op = "get_comment" /\ last.who = 0
    /\ 0 \notin last.purged
    /\ EocdAt + END_OF_CENTRAL_DIRECTORY_LEN + get_uint16(disk, EocdAt + 20)
         <= Len(disk) )
  => last.ret = Slice(disk, EocdAt + END_OF_CENTRAL_DIRECTORY_LEN,
                      get_uint16(disk, EocdAt + 20))

\* C13: after a successful init and before any purge_comment on the entry,
\* get_comment() of entry i returns the comment bytes of the i-th record of
\* the central directory.
EntryCommentIsRecordComment ==
  ( /\ Usable /\ last.op = "get_comment" /\ last.who # 0
    /\ last.who \notin last.purged
    /\ size(tez) = zip.n_total )
  => last.ret = zip.entries[last.who].comment

\* C14: once purge_comment() was called on the archive or on an entry,
\* get_comment() and purge_comment() on it return the empty string ever
\* after, whatever was called in between; and purge_comment() returns the
\* comment that get_comment() would have returned just before it.
PurgedCommentStaysEmpty ==
  /\ (last.op \in {"get_comment", "purge_comment"} /\ last.was_purged)
     => last.ret = << >>
  /\ (last.op = "purge_comment" /\ ~last.was_purged) => last.ret = last.held

\* the names of the central directory of an archive in use; none otherwise
Present(name) ==
  /\ Usable
  /\ size(tez) = zip.n_total
  /\ \E i \in 1 .. zip.n_total : zip.entries[i].name = name

\* C15: find(name) returns end() for a name that is not in the archive and
\* operator[](name) throws out_of_range for it; for a name that is in the
\* archive both return an entry whose get_filename() is that name.
LookupByName ==
  /\ last.op = "find" =>
       IF Present(last.name)
       THEN /\ last.who \in 1 .. size(tez)
            /\ get_filename(tez, last.who) = last.name
       ELSE last.who = end(tez)
  /\ last.op = "subscript" =>
       IF Present(last.name)
       THEN /\ last.err = ""
            /\ last.who \in 1 .. size(tez)
            /\ get_filename(tez, last.who) = last.name
       ELSE last.err = "file index out of range"

\* find("b") has returned the second of two entries
FoundSecondEntry ==
  /\ last.op = "find" /\ last.name = << 98 >>
  /\ Present(<< 98 >>) /\ ~Present(<< 122 >>)
  /\ size(tez) = 2 /\ last.who = 2
  /\ get_filename(tez, 2) = << 98 >>

(***************************************************************************)
(* Properties of the scanner and of the checks of init (SpecArchive)       *)
(***************************************************************************)
\* init has run on a file it could open
InitRan == last.op = "init" /\ last.err \notin {"std::system_error"}

\* C17: the scanner looks at the positions of the last
\* min(file size, max_comment_len + 22) bytes where a record fits; init
\* fails with "too small" on a file of less than 22 bytes and with "does
\* not appear to contain a zipfile" when none of the positions has the
\* signature; otherwise it fails with neither, and the record used is the
\* one nearest the end of the file: its disk fields are checked and its
\* entry count is the size of the archive.
ScannerTakesNearestToEnd ==
  InitRan =>
    IF Len(disk) < END_OF_CENTRAL_DIRECTORY_LEN
    THEN last.err = "executable too small to possibly be a zipfile"
    ELSE IF EocdCandidates = {}
    THEN last.err = "executable does not appear to contain a zipfile"
    ELSE /\ last.err \notin
              {"executable too small to possibly be a zipfile",
               "executable does not appear to contain a zipfile"}
         /\ (\E k \in 4 .. 7 : disk[EocdAt + k + 1] # 0)
              => last.err \in {"multipart zipfiles are not supported",
                               "ios_base::failure"}
         /\ last.err = "" => size(tez) = get_uint16(disk, EocdAt + 10)

\* init has succeeded, with no entries, on the record inside the comment
\* of the EOCD record of an executable with two entries
FoundRecordInComment ==
  /\ InitSucceeded
  /\ Cardinality(EocdCandidates) = 2
  /\ zip.n_total = 2 /\ size(tez) = 0
  /\ EocdAt = Len(disk) - END_OF_CENTRAL_DIRECTORY_LEN

\* the first thing wrong with a record of the central directory, in the
\* order: signature, version, encryption, data descriptors, other flags,
\* method, disk number; "" when nothing is
FirstViolation(e) ==
  IF e.sig # SIG_CD THEN "central directory is corrupted"
  ELSE IF e.version > VERSION_MAX THEN "zipfile is not PKZIP 2.0 compatible"
  ELSE IF BitSet(e.flags, 1) THEN "zipfile contains an encrypted member"
  ELSE IF BitSet(e.flags, 8) THEN "zipfile uses Data Descriptors"
  ELSE IF \E b \in Pow2 : BitSet(GPBF_UNSUPPORTED, b) /\ BitSet(e.flags, b)
       THEN "zipfile member uses unsupported GPBF flags"
  ELSE IF e.method \notin {METHOD_STORE, METHOD_DEFLATE}
       THEN "zipfile uses a compression method other than deflate"
  ELSE IF e.disk # 0 THEN "multipart zipfiles are not supported"
  ELSE ""

\* the records that have something wrong
Violating == {i \in 1 .. Len(zip.entries) : FirstViolation(zip.entries[i]) # ""}

\* what init must fail with on the executable: the disk fields of the
\* EOCD record come first, then the records in their order
ExpectedRejection ==
  IF zip.disk_no # 0 \/ zip.cd_disk # 0
  THEN "multipart zipfiles are not supported"
  ELSE IF Violating = {} THEN ""
  ELSE FirstViolation(zip.entries[CHOOSE i \in Violating :
                                    \A j \in Violating : i <= j])

\* the EOCD record and the central directory are where init looks for them,
\* and as many records as the EOCD record says
WellLocated ==
  /\ zip.cut = 0 /\ zip.eocd_sig = SIG_EOCD /\ zip.cd_delta = 0
  /\ zip.n_total = Len(zip.entries)
  /\ zip.clen = Len(zip.comment) /\ zip.clen <= MaxCommentLen
  /\ EocdAt = Len(disk) - END_OF_CENTRAL_DIRECTORY_LEN - zip.clen

\* C16: init succeeds only when the disk fields of the EOCD record are zero
\* and no record of the central directory has anything wrong; when
\* something is wrong init fails with the failure of the first violated
\* check; and every entry of a usable archive is stored or deflated.
InitRejectsInOrder ==
  /\ (InitRan /\ WellLocated) =>
       /\ ExpectedRejection # "" => last.err = ExpectedRejection
       /\ last.err = "" => ExpectedRejection = ""
  /\ InitSucceeded =>
       \A i \in 1 .. size(tez) :
         iterate(tez)[i].method \in {METHOD_STORE, METHOD_DEFLATE}

\* init has failed on the data descriptors of a record whose method is
\* not supported either
RejectedOnFirstOfTwo ==
  /\ InitRan /\ WellLocated
  /\ last.err = "zipfile uses Data Descriptors"
  /\ last.parsed = 1
  /\ zip.entries[2].method = 9

\* where the data of entry i begins in the executable: after its local
\* header, the name and the extra field that the local header announces
DataOffset(i) ==
  LocalOffset(zip, i) + LOCAL_FILE_HEADER_LEN + Len(zip.entries[i].lname)
    + Len(zip.entries[i].lextra) + zip.entries[i].lgap

\* the stream of thread t was opened on the archive as it is now
Current(t) == th[t].kind # "none" /\ Usable /\ last.stale[t] = -1

\* C21: when the central directory is accepted, init fails with "file
\* header is corrupted" if the local header of an entry does not begin with
\* the local signature, and succeeds otherwise; the offset of every entry
\* is then the offset of its local header plus 30 plus the name and extra
\* lengths of the local header, and a stream opened on the entry starts
\* there.
HeadersResolvedOnce ==
  /\ (InitRan /\ WellLocated /\ ExpectedRejection = "") =>
       IF \E i \in 1 .. zip.n_total : zip.entries[i].lsig # SIG_LOCAL
       THEN last.err = "file header is corrupted"
       ELSE last.err = ""
  /\ (InitSucceeded /\ OwnRecord) =>
       \A i \in 1 .. size(tez) : iterate(tez)[i].offset = DataOffset(i)
  /\ \A t \in Threads :
       (Current(t) /\ OwnRecord) =>
         IF th[t].kind = "stored"
         THEN /\ th[t].start_pos = DataOffset(th[t].entry)
              /\ th[t].cur_pos = th[t].start_pos
         ELSE /\ th[t].in_start_pos = DataOffset(th[t].entry)
              /\ th[t].in_cur_pos = th[t].in_start_pos

\* a stream is open on an entry whose local header has a longer name than
\* its record of the central directory, and an extra field of another length
OpenedBehindLocalHeader ==
  /\ InitSucceeded /\ OwnRecord /\ Current(1)
  /\ th[1].entry = 1
  /\ Len(zip.entries[1].lname) # Len(zip.entries[1].name)
  /\ Len(zip.entries[1].lextra) # Len(zip.entries[1].extra)
  /\ zip.entries[1].lextra # << >>
  /\ th[1].start_pos = DataOffset(1)

\* the highest position of the central directory that carries the name
LastNamed(name) ==
  CHOOSE i \in 1 .. zip.n_total :
    /\ zip.entries[i].name = name
    /\ \A j \in 1 .. zip.n_total : zip.entries[j].name = name => j <= i

\* C22: when records of the central directory carry the same name, find
\* and operator[] return the entry at the highest position that carries
\* it, and every entry of the iteration has the name of its record.
DuplicateNamesLastWins ==
  /\ (last.op \in {"find", "subscript"} /\ Present(last.name))
       => last.who = LastNamed(last.name)
  /\ (Usable /\ size(tez) = zip.n_total) =>
       \A i \in 1 .. size(tez) :
         iterate(tez)[i].filename = << zip.entries[i].name >>

\* C23: in a usable archive every stored entry has a compressed size equal
\* to its uncompressed size, and so has the entry of every stored stream
\* that is open.
StoredSizesAgree ==
  /\ Usable =>
       \A i \in 1 .. size(tez) :
         iterate(tez)[i].method = METHOD_STORE
           => iterate(tez)[i].compressed_size = iterate(tez)[i].uncompressed_size
  /\ \A t \in Threads :
       (Current(t) /\ th[t].kind = "stored") =>
         iterate(tez)[th[t].entry].compressed_size = th[t].end_pos - th[t].start_pos

\* C27: read_eocd reads no byte outside the buffer that holds the end of
\* the file: the comment it copies, of the length the record declares, lies
\* inside the buffer.
EocdReadsInsideBuffer == last.op = "init" => ~last.oob

(***************************************************************************)
(* SpecStream: one thread opens streams on the entries of StreamZip, and   *)
(* reads, seeks and clears them.                                           *)
(***************************************************************************)
MaxSeek == 5

SeekTargets == -1 .. MaxSeek

\* the first init of a run
Startup == last.op = "none" /\ DoInit(TRUE, 0)

InitStream == InitOn(<< StreamZip >>, {0})

NextStream ==
  \/ Startup
  \/ \E i \in 1 .. Len(StreamZip.entries) : Open(1, i)
  \/ \E n \in 1 .. MaxRead : CallRead(1, n)
  \/ \E o \in SeekTargets : CallSeek(1, o)
  \/ Clear(1)
  \/ RffLock(1)
  \/ RffSeek(1)
  \/ RffRead(1)
  \/ RffDone(1)

SpecStream == InitStream /\ [][NextStream]_vars

(***************************************************************************)
(* Properties of the streams (SpecStream)                                  *)
(***************************************************************************)
\* the entry of the container that stream s was opened on
Entry(s) == zip.entries[s.entry]

\* the entry's declared size and checksum are those of its content
Sound(e) == e.usize = Len(e.plain) /\ e.crc = crc32(0, e.plain)

Opened(s) == s.kind # "none"

AtEnd(s) == s.pc = "idle" /\ "eof" \in s.ios

\* reads only, from the opening on
ForwardOnly(s) == Opened(s) /\ ~s.seeked /\ ~s.cleared

\* the last call of seekg began on a good stream, and only reads followed it
AfterSeek(s) == Opened(s) /\ s.seeked /\ s.sk_good /\ ~s.cleared

\* C3: a stream that is read forward from its opening delivers exactly
\* uncompressed_size bytes: never more than that, and that many when it
\* reports the end of the data.
ForwardReadDeliversSize ==
  \A t \in Threads :
    ForwardOnly(th[t]) =>
      /\ Len(th[t].got) <= Entry(th[t]).usize
      /\ AtEnd(th[t]) => Len(th[t].got) = Entry(th[t]).usize

\* C4: in a deflated stream the running CRC is that of all the bytes
\* produced; when the output cursor has reached uncompressed_size and the
\* CRC is not the declared one, the refill that got there has thrown the
\* checksum error; and a forward read of such an entry ends with badbit,
\* short of the last bytes, and never reports the end of the data.
ChecksumIsEnforced ==
  \A t \in Threads :
    th[t].kind = "deflated" =>
      /\ th[t].crc = crc32(0, th[t].produced)
      /\ ( /\ th[t].produced # << >>
           /\ th[t].out_cur_pos = th[t].out_end_pos
           /\ th[t].crc # th[t].desired_crc )
         => th[t].threw = "checksum mismatch"
      /\ (ForwardOnly(th[t]) /\ th[t].threw = "checksum mismatch")
         => /\ "bad" \in th[t].ios
            /\ "eof" \notin th[t].ios
            /\ Len(th[t].got) < Entry(th[t]).usize

\* the forward read of the entry with the wrong checksum has failed on its
\* last refill
ChecksumErrorRaised ==
  /\ ForwardOnly(th[1])
  /\ Entry(th[1]) = EntryBadCrc
  /\ th[1].pc = "idle"
  /\ th[1].out_cur_pos = th[1].out_end_pos
  /\ th[1].threw = "checksum mismatch"
  /\ th[1].got = << 100, 100, 100 >>

\* C5: on an entry that is sound, after reads, a seek to offset 0 followed by
\* reads to the end of the data delivers the content of the entry, as a
\* freshly opened stream does, and fails on nothing.
SeekToStartRestarts ==
  \A t \in Threads :
    ( /\ AfterSeek(th[t]) /\ th[t].sk_first /\ th[t].sk_o = 0
      /\ Sound(Entry(th[t])) )
    => /\ th[t].pc # "crashed"
       /\ "bad" \notin th[t].ios
       /\ AtEnd(th[t]) => th[t].got = Entry(th[t]).plain

\* C6: on a stored stream, after a seek to o in [0, uncompressed_size] the
\* bytes delivered are the bytes o, o + 1, ... of the entry, all of them when
\* the end of the data is reported.
StoredSeekIsRandomAccess ==
  \A t \in Threads :
    ( /\ AfterSeek(th[t]) /\ th[t].kind = "stored"
      /\ th[t].sk_o \in 0 .. Entry(th[t]).usize )
    => /\ th[t].sk_res = th[t].sk_o
       /\ IsPrefix(th[t].got, Drop(Entry(th[t]).plain, th[t].sk_o))
       /\ AtEnd(th[t]) => th[t].got = Drop(Entry(th[t]).plain, th[t].sk_o)

\* C7: on a deflated stream of a sound entry whose output cursor is c, a
\* seek to o with c <= o <= uncompressed_size does not reset the
\* decompressor, does not fail, and the bytes delivered after it are the
\* bytes o, o + 1, ... of the entry, all of them when the end of the data is
\* reported.
DeflatedForwardSeek ==
  \A t \in Threads :
    ( /\ AfterSeek(th[t]) /\ th[t].kind = "deflated"
      /\ Sound(Entry(th[t]))
      /\ th[t].sk_c <= th[t].sk_o /\ th[t].sk_o <= Entry(th[t]).usize )
    => /\ ~th[t].resets
       /\ th[t].pc # "crashed"
       /\ th[t].sk_res # -1
       /\ IsPrefix(th[t].got, Drop(Entry(th[t]).plain, th[t].sk_o))
       /\ AtEnd(th[t]) => th[t].got = Drop(Entry(th[t]).plain, th[t].sk_o)

\* C8: a seek to a target outside [0, uncompressed_size] succeeds at the
\* nearest bound; after a seek beyond uncompressed_size the position is
\* uncompressed_size and the reads deliver nothing and raise no error.
SeekOutsideIsClamped ==
  \A t \in Threads :
    (AfterSeek(th[t]) /\ Sound(Entry(th[t]))) =>
      /\ th[t].sk_o < 0 => th[t].sk_res \in {-2, 0}
      /\ th[t].sk_o > Entry(th[t]).usize =>
           /\ th[t].sk_res \in {-2, Entry(th[t]).usize}
           /\ th[t].pc # "crashed"
           /\ th[t].got = << >>
           /\ "bad" \notin th[t].ios

\* C19: on a deflated stream of a sound entry, a seek to o below the output
\* cursor resets the decompressor and does not fail; a seek back to 0 leaves
\* the stream as open() made it, with no compressed input pending; the
\* bytes delivered after the seek are the bytes o, o + 1, ... of the entry,
\* all of them when the end of the data is reported, and no checksum error
\* is raised.
BackwardSeekRestarts ==
  \A t \in Threads :
    ( /\ AfterSeek(th[t]) /\ th[t].kind = "deflated"
      /\ Sound(Entry(th[t]))
      /\ 0 <= th[t].sk_o /\ th[t].sk_o < th[t].sk_c )
    => /\ th[t].resets
       /\ th[t].pc # "crashed"
       /\ th[t].sk_res # -1
       /\ (th[t].sk_o = 0 /\ th[t].pc = "idle" /\ th[t].produced = << >>)
          => /\ th[t].zin = << >> /\ th[t].z = inflateReset
             /\ th[t].in_cur_pos = th[t].in_start_pos
             /\ th[t].out_cur_pos = 0 /\ th[t].crc = 0
       /\ "bad" \notin th[t].ios
       /\ IsPrefix(th[t].got, Drop(Entry(th[t]).plain, th[t].sk_o))
       /\ AtEnd(th[t]) => th[t].got = Drop(Entry(th[t]).plain, th[t].sk_o)

\* C25: the cursors of a stream stay inside their ranges, so that the
\* number of available bytes it reports never wraps.
CursorsInRange ==
  \A t \in Threads :
    /\ th[t].kind = "stored" =>
         th[t].start_pos <= th[t].cur_pos /\ th[t].cur_pos <= th[t].end_pos
    /\ th[t].kind = "deflated" =>
         /\ th[t].in_start_pos <= th[t].in_cur_pos
         /\ th[t].in_cur_pos <= th[t].in_end_pos
         /\ 0 <= th[t].out_cur_pos
         /\ th[t].out_cur_pos <= th[t].out_end_pos
    /\ Opened(th[t]) => ~showmanyc(th[t]).borrow

(***************************************************************************)
(* SpecStreamFair: SpecStream in which a thread that is inside             *)
(* read_for_file goes on: the mutex is free for it and the file answers.   *)
(***************************************************************************)
RffStep(t) == RffLock(t) \/ RffSeek(t) \/ RffRead(t) \/ RffDone(t)

SpecStreamFair == SpecStream /\ \A t \in Threads : WF_vars(RffStep(t))

\* a call of read or seekg on the stream of thread t has not returned
Running(t) == th[t].pc \in {"rff", "hung"}

\* C20: every refill of a deflated stream comes to an end: a call on the
\* stream that is inside a refill returns (or the process has died of
\* something else).
RefillTerminates ==
  \A t \in Threads :
    (th[t].kind = "deflated" /\ Running(t))
      ~> (th[t].pc \in {"idle", "crashed"})

(***************************************************************************)
(* SpecConc: the threads each open a stream on an entry of Good2 and read  *)
(* it forward, one byte or MaxRead bytes at a time, their calls of         *)
(* read_for_file interleaved in every way.                                 *)
(***************************************************************************)
InitConc == InitOn(<< Good2 >>, {0})

NextConc ==
  \/ Startup
  \/ \E t \in Threads, i \in 1 .. Len(Good2.entries) : Open(t, i)
  \/ \E t \in Threads, n \in {1, MaxRead} : CallRead(t, n)
  \/ \E t \in Threads : RffLock(t)
  \/ \E t \in Threads : RffSeek(t)
  \/ \E t \in Threads : RffRead(t)
  \/ \E t \in Threads : RffDone(t)

SpecConc == InitConc /\ [][NextConc]_vars

\* between the taking and the release of the lock in read_for_file
InCritical(s) == s.pc = "rff" /\ s.rph \in {"locked", "seeked", "read"}

\* C9: whatever the interleaving, each thread receives the bytes of its own
\* entry in order and all of them by the end of the data, no read fails, and
\* every chunk read_for_file hands back is the range of the file asked for.
EachThreadGetsItsOwnBytes ==
  \A t \in Threads :
    Opened(th[t]) =>
      /\ IsPrefix(th[t].got, Entry(th[t]).plain)
      /\ AtEnd(th[t]) => th[t].got = Entry(th[t]).plain
      /\ "bad" \notin th[t].ios
      /\ (th[t].pc = "rff" /\ th[t].rph = "read")
         => th[t].rbuf = Slice(disk, th[t].roff, th[t].rlen)

\* both threads are in the middle of different entries, one waiting for the
\* lock while the other has just read a chunk that begins where the file
\* position was not
ThreadsInterleaved ==
  /\ th[1].entry = 1 /\ th[2].entry = 2
  /\ th[1].got # << >> /\ th[2].got # << >>
  /\ th[1].pc = "rff" /\ th[1].rph = "call"
  /\ th[2].pc = "rff" /\ th[2].rph = "read"
  /\ tez.streampos # th[2].roff

\* C10: a thread that is between the seek decision and the update of the
\* tracked position in read_for_file holds the mutex, no two threads are
\* there at once, and the mutex is held by nobody else.
ReadsAreMutuallyExclusive ==
  /\ \A t \in Threads : InCritical(th[t]) => mutex = t
  /\ \A t1, t2 \in Threads : (InCritical(th[t1]) /\ InCritical(th[t2])) => t1 = t2
  /\ mutex # 0 => InCritical(th[mutex])

\* one thread has done its seek and not yet its read while the other waits
\* for the lock
ThreadWaitsForLock ==
  /\ th[1].pc = "rff" /\ th[1].rph = "seeked" /\ mutex = 1
  /\ tez.fpos = th[1].roff
  /\ th[2].pc = "rff" /\ th[2].rph = "call"
  /\ th[2].roff # th[1].roff

(***************************************************************************)
(* SpecFail: the threads each open a stream on an entry of FailZip and     *)
(* read it forward.  The reads of "c" end in a checksum error, those of    *)
(* "g" ask the file for bytes it does not have.                            *)
(***************************************************************************)
InitFail == InitOn(<< FailZip >>, {0})

NextFail ==
  \/ Startup
  \/ \E t \in Threads, i \in 1 .. Len(FailZip.entries) : Open(t, i)
  \/ \E t \in Threads : CallRead(t, MaxRead)
  \/ \E t \in Threads : RffLock(t)
  \/ \E t \in Threads : RffSeek(t)
  \/ \E t \in Threads : RffRead(t)
  \/ \E t \in Threads : RffDone(t)

SpecFail == InitFail /\ [][NextFail]_vars

\* the entry table is the one init built from the central directory
TableIntact ==
  /\ size(tez) = zip.n_total
  /\ \A i \in 1 .. zip.n_total :
       /\ iterate(tez)[i].crc32 = zip.entries[i].crc
       /\ iterate(tez)[i].uncompressed_size = zip.entries[i].usize

\* a sound entry whose data is in the file where its local header says
Intact(e) == Sound(e) /\ e.lgap = 0

\* C11: whatever has failed on the other streams, a stream that is read
\* forward on an intact entry delivers the bytes of that entry, all of them
\* by the end of the data, and raises no error; and the entry table of the
\* archive stays as init built it.
FailureStaysInItsStream ==
  /\ InitSucceeded => TableIntact
  /\ \A t \in Threads :
       (ForwardOnly(th[t]) /\ Intact(Entry(th[t]))) =>
         /\ IsPrefix(th[t].got, Entry(th[t]).plain)
         /\ AtEnd(th[t]) => th[t].got = Entry(th[t]).plain
         /\ "bad" \notin th[t].ios

(***************************************************************************)
(* SpecReset: one thread opens streams on the entries of Good2 or of       *)
(* FailZip and reads them, and between its calls the archive is purged and *)
(* initialized again, with and without success.                            *)
(***************************************************************************)
InitReset == InitOn(<< Good2, FailZip >>, {0})

NextReset ==
  \/ \E openable \in BOOLEAN : DoInit(openable, 0)
  \/ DoPurge
  \/ \E i \in 1 .. tez.file_count : Open(1, i)
  \/ \E n \in {1, MaxRead} : CallRead(1, n)
  \/ RffLock(1)
  \/ RffSeek(1)
  \/ RffRead(1)
  \/ RffDone(1)

SpecReset == InitReset /\ [][NextReset]_vars

\* C18: a stream whose archive was reset after it was opened delivers no
\* byte from then on, not after the archive was initialized again either.
ResetArchiveDeliversNothing ==
  \A t \in Threads :
    last.stale[t] >= 0 => Len(th[t].got) = last.stale[t]

\* C24: read_for_file gives what a read_for_file that always seeks would
\* give: when it reads from a file that is open and has not failed, the file
\* is at the offset asked for, whether the seek was made or skipped, and the
\* bytes it hands back are those of the file at that offset.
SeekSkipIsOptimization ==
  \A t \in Threads :
    /\ ( /\ th[t].pc = "rff" /\ th[t].rph = "seeked"
         /\ tez.buf_open /\ tez.state = {} )
       => tez.fpos = th[t].roff
    /\ (th[t].pc = "rff" /\ th[t].rph = "read")
       => th[t].rbuf = Slice(disk, th[t].roff, th[t].rlen)

\* C28: purge leaves the archive as the constructor makes it, with no error
\* flag and no tracked position left (the exception mask apart, which init
\* sets); and an init that follows, on an executable that can be opened,
\* succeeds and leaves the archive as init leaves a new instance.
PurgeMakesFresh ==
  [][ /\ DoPurge =>
           /\ last'.err = ""
           /\ tez' = [archive(0) EXCEPT !.exc = tez'.exc]
      /\ DoInit(TRUE, 0) =>
           /\ last'.err = ""
           /\ tez' = init(archive(0), disk, TRUE, 0).a ]_vars

(***************************************************************************)
(* SpecTell: one thread opens streams on the entries of Good2, reads them, *)
(* asks them for their position and seeks.                                 *)
(***************************************************************************)
InitTell == InitOn(<< Good2 >>, {0})

NextTell ==
  \/ Startup
  \/ \E i \in 1 .. Len(Good2.entries) : Open(1, i)
  \/ \E n \in 1 .. MaxRead : CallRead(1, n)
  \/ CallTell(1)
  \/ \E o \in SeekTargets : CallSeek(1, o)
  \/ RffLock(1)
  \/ RffSeek(1)
  \/ RffRead(1)
  \/ RffDone(1)

SpecTell == InitTell /\ [][NextTell]_vars

\* C26: on a stream that was only read since it was opened, tellg returns
\* the number of bytes delivered; and a seekg to o on a good stream returns
\* o clamped to [0, uncompressed_size].
ReportedPositionIsLogical ==
  \A t \in Threads :
    /\ (ForwardOnly(th[t]) /\ th[t].pc = "idle" /\ th[t].ios = {}
          /\ th[t].tell # -2)
       => th[t].tell = Len(th[t].got)
    /\ (AfterSeek(th[t]) /\ th[t].pc = "idle" /\ th[t].sk_res # -2)
       => th[t].sk_res = clamp(th[t].sk_o, Entry(th[t]).usize)

=============================================================================
